---- MODULE Spec2Model ----
(***************************************************************************)
(* Model of the link-prediction pipeline of notebooks/opinion-models:      *)
(* add_negative_examples, louvain_communities and the class                *)
(* LinkPredictionSimulator (prep_data, train_model, get_predicted_edges,   *)
(* update_edges, step, degree_gini, modularity).                           *)
(*                                                                         *)
(* A pandas data frame is a bag (multiset) of rows: row order is only      *)
(* observable through the tie-break of sort_values, which is modelled as   *)
(* a free choice among equally scored rows.  A networkx Graph is a record  *)
(* of a node set and a set of undirected edges {a, b} ({a} is a self-loop).*)
(* The fitted LogisticRegression is a black box: predict_proba is any      *)
(* assignment of a score in 0..MaxScore to every candidate row.            *)
(*                                                                         *)
(* Spec        the driver loop of the notebook: construction, then step,   *)
(*             modularity and degree_gini, on NumNodes nodes.              *)
(* SpecCalls   the public methods called directly, in any order, on        *)
(*             CallNodes nodes; the locals of a direct call are recorded.  *)
(* SpecBuilder add_negative_examples applied to an arbitrary edge table.   *)
(* SpecNotebook the evaluation cells of the notebook run top to bottom on  *)
(*             a contact log of MaxEvents events: filter, train/test       *)
(*             split, test restriction, groupby, features, fit, test.      *)
(*                                                                         *)
(* SpecDriver  the simulation cell as written: step(0), then the loop of   *)
(*             step, modularity, degree_gini; an exception ends it.        *)
(* SpecAgents  the agent-based models of notebooks/SIS and of the first    *)
(*             part of notebooks/opinion-models under mesa's simultaneous  *)
(*             scheduler, on NumAgents agents.                             *)
(*                                                                         *)
(* Of the feature columns the degree and common-neighbour columns are kept *)
(* by value and the community-pair indicator columns as the set of their   *)
(* names; the PageRank columns are present in every feature table.         *)
(***************************************************************************)
EXTENDS Integers, FiniteSets, Sequences, Bags, TLC

VARIABLES
    edge_df,     \* self.edge_df : bag of rows <<source, target>>
    G,           \* self.G       : [nodes, edges]
    node_list,   \* self.node_list
    comm_dict,   \* self.comm_dict : node -> community label
    comms,       \* self.comms     : sequence of node sets
    train_df,    \* self.train_df  : [defined, rows, features], rows a bag of
                 \* <<source, target, link>>
    model,       \* self.model     : "absent" | "unfitted" | "fitted"
    call,        \* the last call made on the simulator, its locals and its outcome
    df,          \* argument of a direct call of add_negative_examples
    merged_df,   \* [defined, rows, features]: the table that call returned
    train_df_columns,  \* self.train_df.columns : the feature columns of train_df
    feature_cols,      \* self.feature_cols
    feature_names_in_, \* self.model.feature_names_in_ : the columns of the last fit
    notebook     \* the globals of the evaluation cells: contact, train, test, ...

vars == <<edge_df, G, node_list, comm_dict, comms, train_df, model, call, df, merged_df,
          train_df_columns, feature_cols, feature_names_in_, notebook>>

\* the feature columns of the training table, of the simulator and of the model
colVars == <<train_df_columns, feature_cols, feature_names_in_>>

\* everything but the notebook globals
simVars == <<edge_df, G, node_list, comm_dict, comms, train_df, model, call, df,
             merged_df, colVars>>

-----------------------------------------------------------------------------
(* Bounds *)

NumNodes == 4
CallNodes == 3
MaxScore == 1
MaxReplace == 3
MaxRows == 3
LogNodes == 3
MaxEvents == 3
m_train == 1

Nodes == 1..NumNodes
Scores == 0..MaxScore
Replacements == 0..MaxReplace

-----------------------------------------------------------------------------
(* Tables and graphs *)

Min(a, b) == IF a < b THEN a ELSE b

\* len(df)
Len_(t) == BagCardinality(t)

\* product(node_list, node_list) filtered to source < target
Pairs(nl) == {p \in nl \X nl : p[1] < p[2]}

\* np.unique(np.append(df["source"], df["target"]))
NodeListOf(t) == UNION {{row[1], row[2]} : row \in BagToSet(t)}

\* nx.from_pandas_edgelist(df): an undirected simple graph on the endpoints
FromPandasEdgelist(t) ==
    [nodes |-> NodeListOf(t),
     edges |-> {{row[1], row[2]} : row \in BagToSet(t)}]

\* no graph: G = None, or a graph without nodes
NoGraph == [nodes |-> {}, edges |-> {}]

\* variant: the node universe is not added back to the rebuilt graph
AddNodesFrom_Skipped(g, nl) == g

\* G.add_nodes_from(nodes)
AddNodesFrom(g, nl) == [g EXCEPT !.nodes = g.nodes \cup nl]

\* G.degree(x): a self-loop counts twice
Degree(g, x) ==
    Cardinality({e \in g.edges : x \in e /\ Cardinality(e) = 2})
      + 2 * Cardinality({e \in g.edges : e = {x}})

-----------------------------------------------------------------------------
(* louvain_communities *)

\* nx.community.louvain_communities(G): some partition of the nodes of G into
\* non-empty blocks, listed here by smallest member
RECURSIVE PartitionsOf(_)
PartitionsOf(S) ==
    IF S = {} THEN {<<>>}
    ELSE LET m == CHOOSE x \in S : \A y \in S : x <= y
         IN UNION {{<<B \cup {m}>> \o rest : rest \in PartitionsOf(S \ (B \cup {m}))}
                     : B \in SUBSET (S \ {m})}

\* comm_dict = {node : label}, label the index of the block holding the node
CommDictOf(cs, nodes) ==
    [i \in nodes |-> CHOOSE l \in 0..(Len(cs) - 1) : i \in cs[l + 1]]

-----------------------------------------------------------------------------
(* add_negative_examples *)

\* variant: the filter source < target is left out
Negative_Unfiltered(t) == NodeListOf(t) \X NodeListOf(t)

\* negative: all node pairs with source < target
Negative(t) == Pairs(NodeListOf(t))

\* variant: the link column is compared the wrong way round
AddNegativeExamples_Flipped(t) ==
    LET rows == {<<p[1], p[2], ~BagIn(p, t)>> : p \in Negative(t)}
    IN  [row \in rows |-> IF row[3] THEN 1 ELSE CopiesIn(<<row[1], row[2]>>, t)]

\* pd.merge(negative, df_, how = "left") then link == 1: a pair matched by k >= 1
\* input rows yields k rows with link true, an unmatched pair one row with link false
AddNegativeExamples(t) ==
    LET rows == {<<p[1], p[2], BagIn(p, t)>> : p \in Negative(t)}
    IN  [row \in rows |-> IF row[3] THEN CopiesIn(<<row[1], row[2]>>, t) ELSE 1]

\* the columns deg_source, deg_target and common_neighbors of a table: a
\* function from its rows to <<deg_source, deg_target, common_neighbors>>, empty
\* on a table compute_features has not been applied to
NoFeatures == [row \in {} |-> <<0, 0, 0>>]

NoTable == [defined |-> FALSE, rows |-> EmptyBag, features |-> NoFeatures]
Table(t) == [defined |-> TRUE, rows |-> t, features |-> NoFeatures]

-----------------------------------------------------------------------------
(* compute_features: the degree and common-neighbour columns *)

\* nx.common_neighbors(G, u, v): w in G[u] if w in G[v] and w not in (u, v)
CommonNeighbors(g, u, v) ==
    {w \in g.nodes : w \notin {u, v} /\ {u, w} \in g.edges /\ {v, w} \in g.edges}

\* variant: every row of the table is taken for an edge
LinkRows_All(rows) == rows

\* df[df["link"]]
LinkRows(rows) ==
    [row \in {x \in BagToSet(rows) : x[3]} |-> CopiesIn(row, rows)]

\* the graph compute_features(df, G) reads: G = None and a graph without
\* nodes are both falsy, and the graph is then made from the rows with link
ReferenceGraph(rows, g) ==
    IF g.nodes = {} THEN FromPandasEdgelist(LinkRows(rows)) ELSE g

\* page_rank[x] raises for an endpoint that is not a node of the graph
FeaturesOutcome(rows, g) ==
    IF NodeListOf(rows) \subseteq ReferenceGraph(rows, g).nodes THEN "ok" ELSE "KeyError"

\* deg_source, deg_target and common_neighbors of every row
ComputeFeatures(rows, g) ==
    LET H == ReferenceGraph(rows, g)
    IN  [row \in BagToSet(rows) |->
            <<Degree(H, row[1]), Degree(H, row[2]),
              Cardinality(CommonNeighbors(H, row[1], row[2]))>>]

\* the table with its feature columns
Featured(rows, g) == [Table(rows) EXCEPT !.features = ComputeFeatures(rows, g)]

-----------------------------------------------------------------------------
(* compute_features: the community-pair indicator columns *)

\* a set of feature columns: deg_source, deg_target, pr_source, pr_target and
\* common_neighbors when defined, plus the indicator columns named in dummies
NoCols == [defined |-> FALSE, dummies |-> {}]
Cols(D) == [defined |-> TRUE, dummies |-> D]

\* "C" + str(comm_source) + str(comm_target): the two labels written one after
\* the other in decimal
CombinedComm(a, b) == a * (IF b < 10 THEN 10 ELSE 100) + b

\* pd.get_dummies(combined_comm): one column per combination that occurs in
\* the rows of the table
GetDummies(rows, cd) == {CombinedComm(cd[row[1]], cd[row[2]]) : row \in rows}

-----------------------------------------------------------------------------
(* train_model *)

Labels(td) == {row[3] : row \in BagToSet(td)}

\* variant: the fit accepts a table with a single class
Fittable_Any(td) == TRUE

\* LogisticRegression.fit raises ValueError unless both classes are present
Fittable(td) == Labels(td) = {TRUE, FALSE}

-----------------------------------------------------------------------------
(* get_predicted_edges *)

\* predict_proba over the candidate table: one score per pair of node_list
ScoreTables(nl) == [Pairs(nl) -> Scores]

\* variant: the merge filter is left out
LeftOnly_Unfiltered(nl, edf) == Pairs(nl)

\* variant: the rows kept are those marked "both"
LeftOnly_Both(nl, edf) == {p \in Pairs(nl) : BagIn(p, edf)}

\* outer merge with indicator, keep left_only: pairs with no row in edge_df
LeftOnly(nl, edf) == {p \in Pairs(nl) : ~BagIn(p, edf)}

\* variant: the merge is how = "right"
OuterMerge_Right(nl, edf) ==
    LET rows == {<<row[1], row[2],
                   IF <<row[1], row[2]>> \in Pairs(nl) THEN "both" ELSE "right_only">>
                   : row \in BagToSet(edf)}
    IN  [x \in rows |-> CopiesIn(<<x[1], x[2]>>, edf)]

\* pd.merge(pairs, self.edge_df, on = ["source", "target"], indicator = True,
\* how = "outer"): a pair matched by k >= 1 edge rows yields k rows marked
\* both, an unmatched pair one row marked left_only, an unmatched edge row
\* stays, marked right_only
OuterMerge(nl, edf) ==
    LET rows == {<<p[1], p[2], IF BagIn(p, edf) THEN "both" ELSE "left_only">>
                   : p \in Pairs(nl)}
                \cup {<<row[1], row[2], "right_only">>
                        : row \in BagToSet(edf) \ Pairs(nl)}
    IN  [x \in rows |-> IF x[3] = "left_only"
                          THEN 1 ELSE CopiesIn(<<x[1], x[2]>>, edf)]

\* variant: the sort is ascending
SortHead_Ascending(cands, score, r) ==
    {S \in SUBSET cands :
        /\ Cardinality(S) = Min(r, Cardinality(cands))
        /\ \A a \in S : \A b \in cands \ S : score[a] <= score[b]}

\* sort_values("edge_score", ascending = False).head(m_replace); rows of equal
\* score come in any order
SortHead(cands, score, r) ==
    {S \in SUBSET cands :
        /\ Cardinality(S) = Min(r, Cardinality(cands))
        /\ \A a \in S : \A b \in cands \ S : score[a] >= score[b]}

-----------------------------------------------------------------------------
(* update_edges *)

\* variant: one row too many is dropped
Sample_OneLess(t, n) == {s \in SubBag(t) : BagCardinality(s) = n - 1}

\* variant: the sample may come out short
Sample_AtMost(t, n) == {s \in SubBag(t) : BagCardinality(s) <= n}

\* edge_df.sample(n): n rows drawn without replacement
Sample(t, n) == {s \in SubBag(t) : BagCardinality(s) = n}

-----------------------------------------------------------------------------
(* measurements *)

Abs(x) == IF x < 0 THEN 0 - x ELSE x

RECURSIVE SumOver(_, _)
SumOver(S, f) ==
    IF S = {} THEN 0
    ELSE LET x == CHOOSE y \in S : TRUE IN f[x] + SumOver(S \ {x}, f)

\* variant: the absolute differences are averaged over n, not over n * n
DegreeGiniOf_RowMean(g) ==
    LET degs == [i \in g.nodes |-> Degree(g, i)]
        diff == [p \in g.nodes \X g.nodes |-> Abs(degs[p[1]] - degs[p[2]])]
    IN  <<SumOver(g.nodes \X g.nodes, diff), 2 * SumOver(g.nodes, degs)>>

\* degree_gini: 0.5 * mean|d_i - d_j| / mean(d) = sum|d_i - d_j| / (2 n sum d),
\* kept as the fraction <<numerator, denominator>>
DegreeGiniOf(g) ==
    LET n    == Cardinality(g.nodes)
        degs == [i \in g.nodes |-> Degree(g, i)]
        diff == [p \in g.nodes \X g.nodes |-> Abs(degs[p[1]] - degs[p[2]])]
    IN  <<SumOver(g.nodes \X g.nodes, diff), 2 * n * SumOver(g.nodes, degs)>>

\* variant: the expected fraction of edges is added, not subtracted
ModularityOf_Added(g, cs) ==
    LET m    == Cardinality(g.edges)
        degs == [i \in g.nodes |-> Degree(g, i)]
        term == [k \in 1..Len(cs) |->
                   LET Lc == Cardinality({e \in g.edges : e \subseteq cs[k]})
                       dc == SumOver(cs[k] \cap g.nodes, degs)
                   IN  4 * m * Lc + dc * dc]
    IN  <<SumOver(1..Len(cs), term), 4 * m * m>>

\* nx modularity: sum over blocks of L_c/m - (d_c/(2m))^2, as the fraction
\* <<sum(4 m L_c - d_c^2), 4 m^2>>
ModularityOf(g, cs) ==
    LET m    == Cardinality(g.edges)
        degs == [i \in g.nodes |-> Degree(g, i)]
        term == [k \in 1..Len(cs) |->
                   LET Lc == Cardinality({e \in g.edges : e \subseteq cs[k]})
                       dc == SumOver(cs[k] \cap g.nodes, degs)
                   IN  4 * m * Lc - dc * dc]
    IN  <<SumOver(1..Len(cs), term), 4 * m * m>>

-----------------------------------------------------------------------------
(* get_predicted_edges and update_edges as relations *)

\* the tables get_predicted_edges(m_replace) can return against edge table edf:
\* the head of the candidates under some predict_proba output
PredictedPairs(nl, edf, r) ==
    LET cands == LeftOnly(nl, edf)
        k     == Min(r, Cardinality(cands))
    IN  {S \in {T \in SUBSET cands : Cardinality(T) = k} :
            \E score \in ScoreTables(nl) : S \in SortHead(cands, score, r)}

\* self.model.predict_proba: AttributeError before the first train_model (no
\* attribute model) and after a fit that raised (fit stored classes_ before it
\* raised, so the estimator passes for fitted and has no coef_)
PredictError(mdl) == "AttributeError"

\* lines 792-795 of get_predicted_edges up to the return of predict_proba: the
\* possible outcomes.  compute_features takes an empty G for a missing one and
\* reads the column link, which the candidate table lacks; pairs[feature_cols]
\* needs every column of feature_cols among the candidate columns candcols;
\* predict_proba needs a fitted model and the columns of the fit: a different
\* number of columns raises, other names of the same number raise or only
\* warn, depending on the sklearn release
ScoreOutcomes(g, mdl, fc, names, candcols) ==
    IF g.nodes = {} THEN {"KeyError"}
    ELSE IF mdl = "absent" \/ ~fc.defined THEN {"AttributeError"}
    ELSE IF ~(fc.dummies \subseteq candcols) THEN {"KeyError"}
    ELSE IF mdl # "fitted" THEN {PredictError(mdl)}
    ELSE IF fc.dummies = names.dummies THEN {"ok"}
    ELSE IF Cardinality(fc.dummies) # Cardinality(names.dummies) THEN {"ValueError"}
    ELSE {"ok", "ValueError"}

\* update_edges(m_replace) on edge table edf, outs the possible outcomes of the
\* scoring: the possible outcomes, each with the edge table it leaves and the
\* locals of the call
UpdateEdgesResults(nl, edf, outs, r) ==
    IF r > Len_(edf)
    THEN {[outcome |-> "ValueError", edge_df |-> edf, kept |-> edf, new_edges |-> {}]}
    ELSE UNION {
           UNION {
             IF o # "ok"
             THEN {[outcome |-> o, edge_df |-> kept,
                    kept |-> kept, new_edges |-> {}]}
             ELSE {[outcome |-> "ok", edge_df |-> kept (+) SetToBag(S),
                    kept |-> kept, new_edges |-> S]
                     : S \in PredictedPairs(nl, kept, r)}
             : o \in outs}
           : kept \in Sample(edf, Len_(edf) - r)}

-----------------------------------------------------------------------------
(* The simulator *)

NoScore == [p \in {} |-> 0]
NoValue == <<0, 0>>

\* the record of a call: its name, argument and outcome; for a direct call of
\* update_edges or get_predicted_edges also the edge table before the call, the
\* table after the removal, the returned pairs and (get_predicted_edges) the
\* edge_score column; for a measurement its value; for step the argument
\* train (True by default), the sub-steps it entered, in the order it entered
\* them, and the degree and common-neighbour columns of the candidate table
\* its get_predicted_edges built
Call(op, r, outcome, before, kept, new, score, value) ==
    [op |-> op, r |-> r, outcome |-> outcome, before |-> before, kept |-> kept,
     new_edges |-> new, edge_score |-> score, value |-> value, train |-> TRUE,
     ran |-> <<>>, pair_features |-> NoFeatures]

\* the record of step(r, train) that entered the sub-steps ran
StepCall(r, train, outcome, ran) ==
    [Call("step", r, outcome, EmptyBag, EmptyBag, {}, NoScore, NoValue)
        EXCEPT !.train = train, !.ran = ran]

\* pairs = compute_features(pairs, comm_dict = self.comm_dict, G = self.G) in
\* get_predicted_edges, as update_edges(r) reaches it on the edge table edf
\* once the sample has not raised: the candidate pairs with the features read
\* on graph g
CandidateFeatures(nl, g, edf, r) ==
    IF r <= Len_(edf) /\ g.nodes # {}
    THEN ComputeFeatures(SetToBag(Pairs(nl)), g)
    ELSE NoFeatures

PlainCall(op, r, outcome) ==
    Call(op, r, outcome, EmptyBag, EmptyBag, {}, NoScore, NoValue)

\* edges = contact.groupby(["source", "target"]).count().reset_index() of the
\* contact log filtered to source < target: one row per pair, source < target,
\* at least one contact
EdgeTables(universe) == {SetToBag(E) : E \in (SUBSET Pairs(universe)) \ {{}}}

\* LinkPredictionSimulator(edges)
Construct(universe) ==
    /\ edge_df \in EdgeTables(universe)
    /\ G = FromPandasEdgelist(edge_df)
    /\ node_list = G.nodes
    /\ comms \in PartitionsOf(G.nodes)
    /\ comm_dict = CommDictOf(comms, G.nodes)
    /\ train_df = NoTable
    /\ train_df_columns = NoCols
    /\ feature_cols = NoCols
    /\ model = "absent"
    /\ feature_names_in_ = NoCols
    /\ call = PlainCall("init", 0, "ok")

\* prep_data on edge table edf with labels cd, old the current train_df, its
\* columns and feature_cols: the possible outcomes with what each leaves.  On an
\* empty edge table the result depends on the pandas version: the merge of
\* add_negative_examples raises (nothing assigned), or compute_features raises
\* (train_df assigned once, without feature columns), or neither
PrepDataResults(edf, cd, old) ==
    IF edf = EmptyBag
    THEN {[outcome |-> "ValueError", train_df |-> old.train_df,
           train_df_columns |-> old.train_df_columns, feature_cols |-> old.feature_cols],
          [outcome |-> "ValueError", train_df |-> Table(EmptyBag),
           train_df_columns |-> NoCols, feature_cols |-> old.feature_cols],
          [outcome |-> "ok", train_df |-> Table(EmptyBag),
           train_df_columns |-> Cols({}), feature_cols |-> Cols({})]}
    ELSE LET rows == AddNegativeExamples(edf)
             D    == GetDummies(BagToSet(rows), cd)
         IN  IF FeaturesOutcome(rows, NoGraph) # "ok"
             THEN {[outcome |-> FeaturesOutcome(rows, NoGraph), train_df |-> Table(rows),
                    train_df_columns |-> NoCols, feature_cols |-> old.feature_cols]}
             ELSE {[outcome |-> "ok", train_df |-> Featured(rows, NoGraph),
                    train_df_columns |-> Cols(D), feature_cols |-> Cols(D)]}

\* what prep_data finds in place
Prepared ==
    [train_df |-> train_df, train_df_columns |-> train_df_columns,
     feature_cols |-> feature_cols]

\* prep_data
PrepData ==
    /\ \E p \in PrepDataResults(edge_df, comm_dict, Prepared) :
          /\ train_df' = p.train_df
          /\ train_df_columns' = p.train_df_columns
          /\ feature_cols' = p.feature_cols
          /\ call' = PlainCall("prep_data", 0, p.outcome)
    /\ UNCHANGED <<edge_df, G, node_list, comm_dict, comms, model, df, merged_df,
                 feature_names_in_, notebook>>

\* variant: the exception of fit is swallowed
TrainModelResult_Swallowed(td, tcols, fc, mdl, names) ==
    IF ~td.defined \/ ~fc.defined
    THEN [outcome |-> "AttributeError", model |-> mdl, feature_names_in_ |-> names]
    ELSE IF ~tcols.defined \/ ~(fc.dummies \subseteq tcols.dummies)
    THEN [outcome |-> "KeyError", model |-> mdl, feature_names_in_ |-> names]
    ELSE [outcome |-> "ok", model |-> IF Fittable(td.rows) THEN "fitted" ELSE "unfitted",
          feature_names_in_ |-> Cols(fc.dummies)]

\* train_model on table td with columns tcols and feature_cols fc: the outcome
\* and the model it leaves.  self.train_df[self.feature_cols] raises before
\* self.model is assigned; fit raises after, unless both classes are present
TrainModelResult(td, tcols, fc, mdl, names) ==
    IF ~td.defined \/ ~fc.defined
    THEN [outcome |-> "AttributeError", model |-> mdl, feature_names_in_ |-> names]
    ELSE IF ~tcols.defined \/ ~(fc.dummies \subseteq tcols.dummies)
    THEN [outcome |-> "KeyError", model |-> mdl, feature_names_in_ |-> names]
    ELSE IF Fittable(td.rows)
    THEN [outcome |-> "ok", model |-> "fitted", feature_names_in_ |-> Cols(fc.dummies)]
    ELSE [outcome |-> "ValueError", model |-> "unfitted",
          feature_names_in_ |-> Cols(fc.dummies)]

\* train_model
TrainModel ==
    /\ LET fit == TrainModelResult(train_df, train_df_columns, feature_cols, model,
                                   feature_names_in_)
       IN  /\ model' = fit.model
           /\ feature_names_in_' = fit.feature_names_in_
           /\ call' = PlainCall("train_model", 0, fit.outcome)
    /\ UNCHANGED <<edge_df, G, node_list, comm_dict, comms, train_df, df, merged_df,
                 train_df_columns, feature_cols, notebook>>

\* the indicator columns of the candidate table of get_predicted_edges
CandidateDummies == GetDummies(Pairs(node_list), comm_dict)

\* get_predicted_edges(m_replace), called directly
GetPredictedEdges(r) ==
    /\ \E o \in ScoreOutcomes(G, model, feature_cols, feature_names_in_,
                              CandidateDummies) :
         IF o # "ok"
         THEN call' = PlainCall("get_predicted_edges", r, o)
         ELSE \E score \in ScoreTables(node_list) :
              \E S \in SortHead(LeftOnly(node_list, edge_df), score, r) :
                 call' = Call("get_predicted_edges", r, "ok", edge_df, edge_df,
                              S, score, NoValue)
    /\ UNCHANGED <<edge_df, G, node_list, comm_dict, comms, train_df, model, df, merged_df,
                 colVars, notebook>>

\* update_edges(m_replace), called directly
UpdateEdges(r) ==
    /\ \E res \in UpdateEdgesResults(node_list, edge_df,
                     ScoreOutcomes(G, model, feature_cols, feature_names_in_,
                                   CandidateDummies), r) :
          /\ edge_df' = res.edge_df
          /\ call' = Call("update_edges", r, res.outcome, edge_df, res.kept,
                          res.new_edges, NoScore, NoValue)
    /\ UNCHANGED <<G, node_list, comm_dict, comms, train_df, model, df, merged_df,
                 colVars, notebook>>

\* variant: the candidates get the features of the edge table as it is after
\* the removal
StepRewire_PostRemovalFeatures(r, train, p, mdl, names, ran) ==
    \E res \in UpdateEdgesResults(node_list, edge_df,
                   ScoreOutcomes(G, mdl, p.feature_cols, names, CandidateDummies), r) :
       /\ edge_df' = res.edge_df
       /\ IF res.outcome = "ok"
            THEN /\ G' = AddNodesFrom(FromPandasEdgelist(res.edge_df), node_list)
                 /\ call' = [StepCall(r, train, "ok",
                                      ran \o <<"update_edges", "rebuild">>)
                               EXCEPT !.pair_features = CandidateFeatures(node_list,
                                       AddNodesFrom(FromPandasEdgelist(res.kept), node_list),
                                       edge_df, r)]
            ELSE /\ G' = G
                 /\ call' = [StepCall(r, train, res.outcome,
                                      ran \o <<"update_edges">>)
                               EXCEPT !.pair_features = CandidateFeatures(node_list,
                                       AddNodesFrom(FromPandasEdgelist(res.kept), node_list),
                                       edge_df, r)]

\* variant: the graph is rebuilt from the edge table step found
StepRewire_StaleGraph(r, train, p, mdl, names, ran) ==
    \E pairs \in {CandidateFeatures(node_list, G, edge_df, r)} :
    \E res \in UpdateEdgesResults(node_list, edge_df,
                   ScoreOutcomes(G, mdl, p.feature_cols, names, CandidateDummies), r) :
       /\ edge_df' = res.edge_df
       /\ IF res.outcome = "ok"
            THEN /\ G' = AddNodesFrom(FromPandasEdgelist(edge_df), node_list)
                 /\ call' = [StepCall(r, train, "ok",
                                      ran \o <<"update_edges", "rebuild">>)
                               EXCEPT !.pair_features = pairs]
            ELSE /\ G' = G
                 /\ call' = [StepCall(r, train, res.outcome,
                                      ran \o <<"update_edges">>)
                               EXCEPT !.pair_features = pairs]

\* variant: the graph is rebuilt also when update_edges has raised
StepRewire_AlwaysRebuild(r, train, p, mdl, names, ran) ==
    \E pairs \in {CandidateFeatures(node_list, G, edge_df, r)} :
    \E res \in UpdateEdgesResults(node_list, edge_df,
                   ScoreOutcomes(G, mdl, p.feature_cols, names, CandidateDummies), r) :
       /\ edge_df' = res.edge_df
       /\ G' = AddNodesFrom(FromPandasEdgelist(res.edge_df), node_list)
       /\ call' = [StepCall(r, train, res.outcome,
                            ran \o <<"update_edges", "rebuild">>)
                     EXCEPT !.pair_features = pairs]

\* the end of step, with the model mdl fitted on the columns names and after
\* the sub-steps ran: self.update_edges(m_replace), then self.G is built from
\* the new edge table and the nodes of node_list are added
StepRewire(r, train, p, mdl, names, ran) ==
    \E pairs \in {CandidateFeatures(node_list, G, edge_df, r)} :
    \E res \in UpdateEdgesResults(node_list, edge_df,
                   ScoreOutcomes(G, mdl, p.feature_cols, names, CandidateDummies), r) :
       /\ edge_df' = res.edge_df
       /\ IF res.outcome = "ok"
            THEN /\ G' = AddNodesFrom(FromPandasEdgelist(res.edge_df), node_list)
                 /\ call' = [StepCall(r, train, "ok",
                                      ran \o <<"update_edges", "rebuild">>)
                               EXCEPT !.pair_features = pairs]
            ELSE /\ G' = G
                 /\ call' = [StepCall(r, train, res.outcome,
                                      ran \o <<"update_edges">>)
                               EXCEPT !.pair_features = pairs]

\* variant: train = False keeps the classifier of the step before
StepBody_HonourTrain(r, train) ==
    \E p \in PrepDataResults(edge_df, comm_dict, Prepared) :
       /\ train_df' = p.train_df
       /\ train_df_columns' = p.train_df_columns
       /\ feature_cols' = p.feature_cols
       /\ IF p.outcome # "ok"
            THEN /\ call' = StepCall(r, train, p.outcome, <<"prep_data">>)
                 /\ UNCHANGED <<model, feature_names_in_, edge_df, G>>
            ELSE IF ~train
            THEN /\ UNCHANGED <<model, feature_names_in_>>
                 /\ StepRewire(r, train, p, model, feature_names_in_, <<"prep_data">>)
            ELSE LET fit == TrainModelResult(p.train_df, p.train_df_columns,
                                             p.feature_cols, model, feature_names_in_)
                 IN  /\ model' = fit.model
                     /\ feature_names_in_' = fit.feature_names_in_
                     /\ IF fit.outcome # "ok"
                          THEN /\ call' = StepCall(r, train, fit.outcome,
                                                   <<"prep_data", "train_model">>)
                               /\ UNCHANGED <<edge_df, G>>
                          ELSE StepRewire(r, train, p, fit.model, fit.feature_names_in_,
                                          <<"prep_data", "train_model">>)

\* the body of step(m_replace, train): prep_data, train_model, update_edges,
\* rebuild of G; an exception in one of them ends the call.  The argument
\* train is not read
StepBody(r, train) ==
    \E p \in PrepDataResults(edge_df, comm_dict, Prepared) :
       /\ train_df' = p.train_df
       /\ train_df_columns' = p.train_df_columns
       /\ feature_cols' = p.feature_cols
       /\ IF p.outcome # "ok"
            THEN /\ call' = StepCall(r, train, p.outcome, <<"prep_data">>)
                 /\ UNCHANGED <<model, feature_names_in_, edge_df, G>>
            ELSE LET fit == TrainModelResult(p.train_df, p.train_df_columns,
                                             p.feature_cols, model, feature_names_in_)
                 IN  /\ model' = fit.model
                     /\ feature_names_in_' = fit.feature_names_in_
                     /\ IF fit.outcome # "ok"
                          THEN /\ call' = StepCall(r, train, fit.outcome,
                                                   <<"prep_data", "train_model">>)
                               /\ UNCHANGED <<edge_df, G>>
                          ELSE StepRewire(r, train, p, fit.model, fit.feature_names_in_,
                                          <<"prep_data", "train_model">>)

\* variant: the partition is recomputed from the rebuilt graph
Step_Relouvain(r) ==
    /\ StepBody(r, TRUE)
    /\ comms' \in PartitionsOf(G'.nodes)
    /\ comm_dict' = CommDictOf(comms', G'.nodes)
    /\ UNCHANGED <<node_list, df, merged_df, notebook>>

\* step(m_replace, train = True) assigns nothing else
Step(r) ==
    /\ StepBody(r, TRUE)
    /\ UNCHANGED <<node_list, comm_dict, comms, df, merged_df, notebook>>

\* step(m_replace, train = False)
StepUntrained(r) ==
    /\ StepBody(r, FALSE)
    /\ UNCHANGED <<node_list, comm_dict, comms, df, merged_df, notebook>>

\* degree_gini(): numpy divides 0.0 by 0.0 with a warning and returns nan, held
\* here as the fraction <<0, 0>>; nothing raises
DegreeGini ==
    /\ call' = Call("degree_gini", 0, "ok", EmptyBag, EmptyBag, {}, NoScore,
                    DegreeGiniOf(G))
    /\ UNCHANGED <<edge_df, G, node_list, comm_dict, comms, train_df, model, df, merged_df,
                 colVars, notebook>>

\* variant: a repeated call drifts
Modularity_Drifting ==
    /\ call' = IF G.edges = {}
                 THEN PlainCall("modularity", 0, "ZeroDivisionError")
                 ELSE Call("modularity", 0, "ok", EmptyBag, EmptyBag, {}, NoScore,
                           IF call.op = "modularity"
                           THEN <<call.value[1] + 1, call.value[2]>>
                           ELSE ModularityOf(G, comms))
    /\ UNCHANGED <<edge_df, G, node_list, comm_dict, comms, train_df, model, df, merged_df,
                 colVars, notebook>>

\* variant: the partition is detected afresh on the current graph
Modularity_Redetected ==
    /\ \E cs \in PartitionsOf(G.nodes) :
          call' = Call("modularity", 0, "ok", EmptyBag, EmptyBag, {}, NoScore,
                       ModularityOf(G, cs))
    /\ UNCHANGED <<edge_df, G, node_list, comm_dict, comms, train_df, model, df, merged_df,
                 colVars, notebook>>

\* modularity(): nx modularity of self.G against self.comms; on a graph
\* without edges the normalisation 1 / deg_sum ** 2 raises
Modularity ==
    /\ call' = IF G.edges = {}
                 THEN PlainCall("modularity", 0, "ZeroDivisionError")
                 ELSE Call("modularity", 0, "ok", EmptyBag, EmptyBag, {}, NoScore,
                           ModularityOf(G, comms))
    /\ UNCHANGED <<edge_df, G, node_list, comm_dict, comms, train_df, model, df, merged_df,
                 colVars, notebook>>

-----------------------------------------------------------------------------
(* The evaluation cells of the notebook *)

\* the globals before any cell has run.  contact, train and test are data
\* frames with an integer index: functions from index labels to rows <<source,
\* target>>; after the groupby train and test are bags of rows
NoNotebook ==
    [cell |-> "none", outcome |-> "ok", contact |-> <<>>, train |-> <<>>,
     test |-> <<>>, train_nodes |-> {}, G_train |-> NoGraph,
     comm_dict_train |-> <<>>, train_columns |-> NoCols, test_columns |-> NoCols,
     feature_cols |-> NoCols, model |-> "absent", X_test |-> NoCols,
     edges |-> EmptyBag]

\* pd.read_csv(url)[["source", "target"]]: MaxEvents events labelled 0, 1, ...
ContactLogs == [0..(MaxEvents - 1) -> (1..LogNodes) \X (1..LogNodes)]

\* the rows of frame f at the labels L
Rows(f, L) == [l \in L |-> f[l]]

\* contact[contact["source"] < contact["target"]]
KeepOrdered(f) == Rows(f, {l \in DOMAIN f : f[l][1] < f[l][2]})

\* contact.loc[0:m, :]: a label slice holds both of its ends
LocUpTo(f, m) == Rows(f, {l \in DOMAIN f : 0 <= l /\ l <= m})

\* contact.loc[m:, :]
LocFrom(f, m) == Rows(f, {l \in DOMAIN f : l >= m})

\* np.unique(np.concatenate([train.source, train.target]))
FrameNodes(f) == UNION {{f[l][1], f[l][2]} : l \in DOMAIN f}

\* variant: one seen endpoint is enough
FoundBoth_Either(f, nodes) ==
    Rows(f, {l \in DOMAIN f : f[l][1] \in nodes \/ f[l][2] \in nodes})

\* test[test.found_source & test.found_target]
FoundBoth(f, nodes) ==
    Rows(f, {l \in DOMAIN f : f[l][1] \in nodes /\ f[l][2] \in nodes})

\* variant: one row per event
GroupBy_PerEvent(f) ==
    [row \in {f[l] : l \in DOMAIN f} |-> Cardinality({l \in DOMAIN f : f[l] = row})]

\* groupby(["source", "target"]).count().reset_index(): one row per pair
GroupBy(f) == SetToBag({f[l] : l \in DOMAIN f})

\* add_negative_examples(t) as called by a cell: on an empty table the merge
\* raises or returns an empty table, depending on the pandas version
AddNegativeExamplesResults(t) ==
    IF t = EmptyBag
    THEN {[outcome |-> "ValueError", rows |-> t], [outcome |-> "ok", rows |-> EmptyBag]}
    ELSE {[outcome |-> "ok", rows |-> AddNegativeExamples(t)]}

\* a cell runs after the cell before it has run without raising
Ran(before) == notebook.cell = before /\ notebook.outcome = "ok"

\* contact = contact[source < target]; train = contact.loc[0:m_train, :];
\* test = contact.loc[m_train:, :]
SplitCell ==
    /\ UNCHANGED simVars
    /\ Ran("read")
    /\ LET kept == KeepOrdered(notebook.contact)
       IN  notebook' = [notebook EXCEPT !.cell = "split",
                                        !.contact = kept,
                                        !.train = LocUpTo(kept, m_train),
                                        !.test = LocFrom(kept, m_train)]

\* train_nodes = ...; test = test[test.found_source & test.found_target]
RestrictCell ==
    /\ UNCHANGED simVars
    /\ Ran("split")
    /\ LET nodes == FrameNodes(notebook.train)
       IN  notebook' = [notebook EXCEPT !.cell = "restrict",
                                        !.train_nodes = nodes,
                                        !.test = FoundBoth(notebook.test, nodes)]

\* train = train.groupby(...); test = test.groupby(...); G_train = ...
GroupCell ==
    /\ UNCHANGED simVars
    /\ Ran("restrict")
    /\ LET tr == GroupBy(notebook.train)
       IN  notebook' = [notebook EXCEPT !.cell = "group",
                                        !.train = tr,
                                        !.test = GroupBy(notebook.test),
                                        !.G_train = FromPandasEdgelist(tr)]

\* train = add_negative_examples(train)
NegativeCell ==
    /\ UNCHANGED simVars
    /\ Ran("group")
    /\ \E res \in AddNegativeExamplesResults(notebook.train) :
          notebook' = [notebook EXCEPT !.cell = "negative",
                                       !.outcome = res.outcome,
                                       !.train = res.rows]

\* comm_dict_train = louvain_communities(G_train);
\* train = compute_features(train, G_train, comm_dict_train).  On an empty
\* G_train the outcome depends on the networkx and pandas versions
FeaturesCell ==
    /\ UNCHANGED simVars
    /\ Ran("negative")
    /\ IF notebook.G_train.nodes = {}
         THEN \E o \in {"ZeroDivisionError", "ValueError", "ok"} :
                 notebook' = [notebook EXCEPT
                                !.cell = "features",
                                !.outcome = o,
                                !.train_columns = IF o = "ok" THEN Cols({}) ELSE NoCols]
         ELSE \E cs \in PartitionsOf(notebook.G_train.nodes) :
                 LET cd == CommDictOf(cs, notebook.G_train.nodes)
                 IN  notebook' = [notebook EXCEPT
                                    !.cell = "features",
                                    !.comm_dict_train = cd,
                                    !.train_columns =
                                        Cols(GetDummies(BagToSet(notebook.train), cd))]

\* feature_cols = [...]; model = LogisticRegression(...); fit = model.fit(...)
FitCell ==
    /\ UNCHANGED simVars
    /\ Ran("features")
    /\ LET ok == Fittable(notebook.train)
       IN  notebook' = [notebook EXCEPT
                          !.cell = "fit",
                          !.outcome = IF ok THEN "ok" ELSE "ValueError",
                          !.feature_cols = notebook.train_columns,
                          !.model = IF ok THEN "fitted" ELSE "unfitted"]

\* the outcomes of compute_features(test, G_train, comm_dict_train) followed by
\* X_test = test[feature_cols] on the labelled table rows: the indicator
\* columns of the test table are those of its own rows, and the selection
\* raises when a column of feature_cols is not among them; on an empty table
\* compute_features itself may raise, depending on the pandas version
TestFeatures(rows, cd, fc) ==
    LET D == GetDummies(BagToSet(rows), cd)
    IN  {[outcome |-> IF fc.dummies \subseteq D THEN "ok" ELSE "KeyError",
          test_columns |-> Cols(D),
          X_test |-> IF fc.dummies \subseteq D THEN fc ELSE NoCols]}
        \cup (IF rows = EmptyBag
              THEN {[outcome |-> "ValueError", test_columns |-> NoCols,
                     X_test |-> NoCols]}
              ELSE {})

\* test = add_negative_examples(test); test = compute_features(...);
\* X_test = test[feature_cols]
TestCell ==
    /\ UNCHANGED simVars
    /\ Ran("fit")
    /\ \E res \in AddNegativeExamplesResults(notebook.test) :
         IF res.outcome # "ok"
         THEN notebook' = [notebook EXCEPT !.cell = "test", !.outcome = res.outcome]
         ELSE \E t \in TestFeatures(res.rows, notebook.comm_dict_train,
                                    notebook.feature_cols) :
                 notebook' = [notebook EXCEPT !.cell = "test",
                                              !.outcome = t.outcome,
                                              !.test = res.rows,
                                              !.test_columns = t.test_columns,
                                              !.X_test = t.X_test]

\* y_pred = model.predict_proba(X_test)[::,1]
PredictCell ==
    /\ UNCHANGED simVars
    /\ Ran("test")
    /\ notebook' = [notebook EXCEPT
                      !.cell = "predict",
                      !.outcome =
                          IF notebook.X_test = notebook.feature_cols
                          THEN "ok" ELSE "ValueError"]

\* edges = contact.groupby(["source", "target"]).count().reset_index(), the
\* table LPS = LinkPredictionSimulator(edges) is built from; contact is the
\* filtered log
EdgesCell ==
    /\ UNCHANGED simVars
    /\ Ran("predict")
    /\ notebook' = [notebook EXCEPT !.cell = "edges",
                                    !.edges = GroupBy(notebook.contact)]

-----------------------------------------------------------------------------
(* Spec: the driver loop *)

Init ==
    /\ Construct(Nodes)
    /\ df = EmptyBag
    /\ merged_df = NoTable
    /\ notebook = NoNotebook

Next ==
    \/ \E r \in Replacements : Step(r)
    \/ Modularity
    \/ DegreeGini

Spec == Init /\ [][Next]_vars

-----------------------------------------------------------------------------
(* SpecCalls: the public methods in any order *)

\* LinkPredictionSimulator(edges) on a table without rows: the graph has no
\* node and louvain_communities returns no community (networkx from 3.0 on;
\* earlier releases raise ZeroDivisionError and build no simulator)
ConstructEmpty ==
    /\ edge_df = EmptyBag
    /\ G = FromPandasEdgelist(edge_df)
    /\ node_list = G.nodes
    /\ comms = <<>>
    /\ comm_dict = CommDictOf(comms, G.nodes)
    /\ train_df = NoTable
    /\ train_df_columns = NoCols
    /\ feature_cols = NoCols
    /\ model = "absent"
    /\ feature_names_in_ = NoCols
    /\ call = PlainCall("init", 0, "ok")

InitCalls ==
    /\ Construct(1..CallNodes) \/ ConstructEmpty
    /\ df = EmptyBag
    /\ merged_df = NoTable
    /\ notebook = NoNotebook

NextCalls ==
    \/ PrepData
    \/ TrainModel
    \/ \E r \in Replacements : GetPredictedEdges(r)
    \/ \E r \in Replacements : UpdateEdges(r)
    \/ \E r \in Replacements : Step(r)
    \/ \E r \in Replacements : StepUntrained(r)
    \/ Modularity
    \/ DegreeGini

SpecCalls == InitCalls /\ [][NextCalls]_vars

-----------------------------------------------------------------------------
(* SpecDriver: the simulation cell, LPS.step(0, train = True) followed by the
   loop of step(100, train = True), modularity(), degree_gini(); an exception
   ends the cell *)

InitDriver ==
    /\ Construct(Nodes) \/ ConstructEmpty
    /\ df = EmptyBag
    /\ merged_df = NoTable
    /\ notebook = NoNotebook

\* the last call returned
Returned(op) == call.op = op /\ call.outcome = "ok"

NextDriver ==
    \/ Returned("init") /\ Step(0)
    \/ Returned("step") /\ call.r = 0 /\ \E r \in Replacements \ {0} : Step(r)
    \/ Returned("step") /\ call.r # 0 /\ Modularity
    \/ Returned("modularity") /\ DegreeGini
    \/ Returned("degree_gini") /\ \E r \in Replacements \ {0} : Step(r)

SpecDriver == InitDriver /\ [][NextDriver]_vars

-----------------------------------------------------------------------------
(* SpecBuilder: add_negative_examples on an arbitrary edge table *)

\* a data frame with columns source, target and 1..MaxRows rows over Nodes, in
\* either orientation, self-loops and repeated rows included
BagOfSeq(s) ==
    LET rows == {s[i] : i \in DOMAIN s}
    IN  [row \in rows |-> Cardinality({i \in DOMAIN s : s[i] = row})]

InputTables ==
    {BagOfSeq(s) : s \in UNION {[1..n -> Nodes \X Nodes] : n \in 1..MaxRows}}

InitBuilder ==
    /\ df \in InputTables
    /\ merged_df = NoTable
    /\ edge_df = EmptyBag
    /\ G = NoGraph
    /\ node_list = {}
    /\ comms = <<>>
    /\ comm_dict = <<>>
    /\ train_df = NoTable
    /\ model = "absent"
    /\ call = PlainCall("none", 0, "ok")
    /\ train_df_columns = NoCols
    /\ feature_cols = NoCols
    /\ feature_names_in_ = NoCols
    /\ notebook = NoNotebook

\* merged_df = add_negative_examples(df)
CallAddNegativeExamples ==
    /\ merged_df' = Table(AddNegativeExamples(df))
    /\ call' = PlainCall("add_negative_examples", 0, "ok")
    /\ UNCHANGED <<df, edge_df, G, node_list, comm_dict, comms, train_df, model,
                 colVars, notebook>>

\* merged_df = compute_features(merged_df, comm_dict = ...), without a graph,
\* as prep_data calls it; on a table without rows the outcome depends on the
\* pandas version
CallComputeFeatures ==
    /\ merged_df.defined
    /\ \E o \in IF merged_df.rows = EmptyBag THEN {"ok", "ValueError"}
                ELSE {FeaturesOutcome(merged_df.rows, NoGraph)} :
          /\ call' = PlainCall("compute_features", 0, o)
          /\ merged_df' = IF o = "ok" THEN Featured(merged_df.rows, NoGraph)
                                     ELSE merged_df
    /\ UNCHANGED <<df, edge_df, G, node_list, comm_dict, comms, train_df, model,
                 colVars, notebook>>

NextBuilder == CallAddNegativeExamples \/ CallComputeFeatures

SpecBuilder == InitBuilder /\ [][NextBuilder]_vars

-----------------------------------------------------------------------------
(* SpecNotebook: the evaluation cells run top to bottom on a contact log *)

\* no simulator has been built
NoSimulator ==
    /\ edge_df = EmptyBag
    /\ G = NoGraph
    /\ node_list = {}
    /\ comms = <<>>
    /\ comm_dict = <<>>
    /\ train_df = NoTable
    /\ train_df_columns = NoCols
    /\ feature_cols = NoCols
    /\ model = "absent"
    /\ feature_names_in_ = NoCols
    /\ call = PlainCall("none", 0, "ok")
    /\ df = EmptyBag
    /\ merged_df = NoTable

InitNotebook ==
    /\ NoSimulator
    /\ \E c \in ContactLogs :
          notebook = [NoNotebook EXCEPT !.cell = "read", !.contact = c]

NextNotebook ==
    \/ SplitCell
    \/ RestrictCell
    \/ GroupCell
    \/ NegativeCell
    \/ FeaturesCell
    \/ FitCell
    \/ TestCell
    \/ PredictCell
    \/ EdgesCell

SpecNotebook == InitNotebook /\ [][NextNotebook]_vars

-----------------------------------------------------------------------------
(* Properties *)

\* the pairs with link = true in a labelled table
Positives(rows) == {<<row[1], row[2]>> : row \in {x \in BagToSet(rows) : x[3]}}

\* C1: one call of step(r) leaves the number of rows of edge_df and the number
\* of edges of G unchanged, whatever r and whether or not the step raises
C1_StepKeepsEdgeCount ==
    [][call'.op = "step" =>
          /\ Len_(edge_df') = Len_(edge_df)
          /\ Cardinality(G'.edges) = Cardinality(G.edges)]_vars

\* a step that replaced at least one edge by another
C1_Witness ==
    /\ call.op = "step"
    /\ call.outcome = "ok"
    /\ call.r >= 1
    /\ BagToSet(edge_df) # Positives(train_df.rows)

\* C2 (as claimed): when m_replace exceeds the number of node pairs absent from
\* the post-removal edge table, the call does not return normally
C2_InsufficientCandidatesRaised ==
    (/\ call.op \in {"get_predicted_edges", "update_edges"}
     /\ call.r > Cardinality(LeftOnly(node_list, call.kept)))
    => call.outcome # "ok"

Choose2(n) == (n * (n - 1)) \div 2

\* the returned table has C(n,2) rows for the n nodes of the input, no (source,
\* target) twice, and source < target in every row
BuilderShape(inp, out) ==
    /\ BagCardinality(out) = Choose2(Cardinality(NodeListOf(inp)))
    /\ \A row \in BagToSet(out) : CopiesIn(row, out) = 1 /\ row[1] < row[2]
    /\ \A a, b \in BagToSet(out) : (a[1] = b[1] /\ a[2] = b[2]) => a = b

NoRepeatedPair(t) ==
    \A row \in BagToSet(t) : row[1] < row[2] => CopiesIn(row, t) = 1

C5_NodesPersist == node_list \subseteq G.nodes

\* a step has left a node of the universe without any edge
C5_Witness ==
    /\ call.op = "step"
    /\ call.outcome = "ok"
    /\ \E n \in node_list : Degree(G, n) = 0

\* no self-loop, no row twice, no pair in both orientations
Simple(t) ==
    \A row \in BagToSet(t) :
        /\ row[1] # row[2]
        /\ CopiesIn(row, t) = 1
        /\ ~BagIn(<<row[2], row[1]>>, t)

\* C6: the edge table stays simple under any sequence of step calls
C6_EdgeTableSimple == Simple(edge_df)

\* a step that both kept an edge and added a new one
C6_Witness ==
    /\ call.op = "step"
    /\ call.outcome = "ok"
    /\ \E p \in BagToSet(edge_df) : p \in Positives(train_df.rows)
    /\ \E q \in BagToSet(edge_df) : q \notin Positives(train_df.rows)

\* C7: every pair get_predicted_edges returns is absent from the edge table as
\* it stands after the removal
C7_PredictedAbsentAfterRemoval ==
    (call.op \in {"get_predicted_edges", "update_edges"} /\ call.outcome = "ok")
    => \A p \in call.new_edges : ~BagIn(p, call.kept)

\* update_edges added back an edge it had just removed
C7_Witness ==
    /\ call.op = "update_edges"
    /\ call.outcome = "ok"
    /\ \E p \in call.new_edges : BagIn(p, call.before) /\ ~BagIn(p, call.kept)

\* C8: get_predicted_edges(r) returns r candidates (when there are r), each
\* scored at least as high as every candidate it leaves out
C8_TopScored ==
    (call.op = "get_predicted_edges" /\ call.outcome = "ok") =>
        LET cands == LeftOnly(node_list, call.kept) IN
        /\ call.new_edges \subseteq cands
        /\ call.r <= Cardinality(cands) => Cardinality(call.new_edges) = call.r
        /\ \A a \in call.new_edges : \A b \in cands \ call.new_edges :
              call.edge_score[a] >= call.edge_score[b]

\* a call that left out a candidate scored strictly lower than one it returned
C8_Witness ==
    /\ call.op = "get_predicted_edges"
    /\ call.outcome = "ok"
    /\ \E a \in call.new_edges :
       \E b \in LeftOnly(node_list, call.kept) \ call.new_edges :
          call.edge_score[a] > call.edge_score[b]

\* C9: for r <= |E| update_edges removes exactly r distinct rows of the current
\* edge table, and every choice of r rows is a possible removal; for r > |E| it
\* raises and leaves the edge table as it was
C9_RemovalIsUniformSample ==
    /\ (call.op = "update_edges" /\ call.r <= Len_(call.before)) =>
          /\ call.kept \sqsubseteq call.before
          /\ Len_(call.kept) = Len_(call.before) - call.r
          /\ \A row \in BagToSet(call.before (-) call.kept) :
                CopiesIn(row, call.before (-) call.kept) = 1
    /\ (call.op = "update_edges" /\ call.r > Len_(call.before)) =>
          /\ call.outcome = "ValueError"
          /\ edge_df = call.before
    /\ \A r \in Replacements :
       \A K \in {B \in SubBag(edge_df) : BagCardinality(B) = r} :
          ENABLED (UpdateEdges(r) /\ call'.kept = edge_df (-) K)

\* update_edges removed one of several edges
C9_Witness ==
    /\ call.op = "update_edges"
    /\ call.outcome = "ok"
    /\ call.r = 1
    /\ Len_(call.before) >= 2

\* C10: no method changes comm_dict or comms
C10_PartitionFixed == [][comm_dict' = comm_dict /\ comms' = comms]_vars

\* a step has rewired a graph whose partition has several communities
C10_Witness ==
    /\ call.op = "step"
    /\ call.outcome = "ok"
    /\ call.r >= 1
    /\ Len(comms) >= 2
    /\ BagToSet(edge_df) # Positives(train_df.rows)

C13_TrainingColumnsPresent ==
    (notebook.test_columns.defined /\ notebook.test # EmptyBag)
    => notebook.feature_cols.dummies \subseteq notebook.test_columns.dummies

\* the candidate rows of get_predicted_edges after the merge and its filter
CandidateRows(nl, edf) ==
    LET merged == OuterMerge(nl, edf)
    IN  [x \in {y \in BagToSet(merged) : y[3] = "left_only"} |-> merged[x]]

\* C14: in a call of get_predicted_edges every unordered pair of distinct
\* nodes of node_list that is not an edge of the post-removal table has exactly
\* one row in the candidate table, every row of that table is such a pair, and
\* they are the rows the call sorted
C14_OneScorePerNonEdge ==
    (call.op \in {"get_predicted_edges", "update_edges"} /\ call.outcome = "ok") =>
        LET cand  == CandidateRows(node_list, call.kept)
            edges == FromPandasEdgelist(call.kept).edges
        IN  /\ \A a, b \in node_list :
                  (a # b /\ {a, b} \notin edges) =>
                      BagCardinality([x \in {y \in BagToSet(cand) : {y[1], y[2]} = {a, b}}
                                         |-> cand[x]]) = 1
            /\ \A x \in BagToSet(cand) :
                  x[1] # x[2] /\ {x[1], x[2]} \notin edges
            /\ {<<x[1], x[2]>> : x \in BagToSet(cand)} = LeftOnly(node_list, call.kept)
            /\ call.new_edges \subseteq {<<x[1], x[2]>> : x \in BagToSet(cand)}

\* a call scored several candidates against a table that holds an edge
C14_Witness ==
    /\ call.op = "update_edges"
    /\ call.outcome = "ok"
    /\ call.r >= 1
    /\ call.kept # EmptyBag
    /\ Cardinality(LeftOnly(node_list, call.kept)) >= 2

\* C15: degree_gini returns g with 0 <= g < 1 on every snapshot of positive
\* mean degree
C15_GiniInUnitInterval ==
    (call.op = "degree_gini" /\ G.edges # {}) =>
        /\ call.outcome = "ok"
        /\ call.value[2] > 0
        /\ 0 <= call.value[1]
        /\ call.value[1] < call.value[2]

\* the coefficient of a rewired snapshot with an isolated node was measured
C15_Witness ==
    /\ call.op = "degree_gini"
    /\ call.value[1] > 0
    /\ \E n \in G.nodes : Degree(G, n) = 0
    /\ model = "fitted"

\* C16 (as claimed): degree_gini on a snapshot without edges does not return
C16_EdgelessGiniRaises ==
    (call.op = "degree_gini" /\ G.edges = {}) => call.outcome # "ok"

\* C17: the modularity of every snapshot reached by rewiring, against the
\* stored partition, lies in [-1, 1]
C17_ModularityInRange ==
    (call.op = "modularity") =>
        /\ call.outcome = "ok"
        /\ call.value[2] > 0
        /\ 0 - call.value[2] <= call.value[1]
        /\ call.value[1] <= call.value[2]

\* a negative modularity was measured on a rewired snapshot
C17_Witness ==
    /\ call.op = "modularity"
    /\ call.value[1] < 0
    /\ model = "fitted"
    /\ BagToSet(edge_df) # Positives(train_df.rows)

C19_SplitIsPartition ==
    notebook.cell = "split" =>
        \A l \in DOMAIN notebook.contact :
            (l \in DOMAIN notebook.train) # (l \in DOMAIN notebook.test)

\* C20: the restriction keeps the test rows whose two endpoints both occur in a
\* training row and drops exactly the others
C20_TestRestrictedToTrainNodes ==
    [][notebook'.cell = "restrict" =>
          LET seen == FrameNodes(notebook'.train)
              old  == notebook.test
              new  == notebook'.test
          IN  /\ FrameNodes(new) \subseteq seen
              /\ DOMAIN new \subseteq DOMAIN old
              /\ \A l \in DOMAIN new : new[l] = old[l]
              /\ \A l \in DOMAIN old \ DOMAIN new :
                    old[l][1] \notin seen \/ old[l][2] \notin seen
      ]_vars

\* the restriction dropped one test row and kept another
C20_Witness ==
    /\ notebook.cell = "restrict"
    /\ notebook.test # <<>>
    /\ \E l \in DOMAIN notebook.contact :
          /\ l >= m_train
          /\ l \notin DOMAIN notebook.test
          /\ notebook.contact[l][1] \notin notebook.train_nodes

-----------------------------------------------------------------------------
(* The input filter and the edge tables *)

\* C21: the input filter removes only self-loops: after it no event has source
\* = target, every event has source < target, and every event between two
\* distinct nodes of the log as read is still there, in the one or the other
\* orientation
C21_FilterOnlyRemovesSelfLoops ==
    [][(notebook.cell = "read" /\ notebook'.cell = "split") =>
          LET raw == notebook.contact
              kept == notebook'.contact
          IN  /\ \A l \in DOMAIN kept : kept[l][1] < kept[l][2]
              /\ \A l \in DOMAIN raw :
                    raw[l][1] # raw[l][2] =>
                       \E k \in DOMAIN kept :
                          {kept[k][1], kept[k][2]} = {raw[l][1], raw[l][2]}]_vars

\* no two rows of table t hold the same (source, target) pair
PairOnce(t) ==
    \A r1 \in BagToSet(t) :
        /\ CopiesIn(r1, t) = 1
        /\ \A r2 \in BagToSet(t) : (r1[1] = r2[1] /\ r1[2] = r2[2]) => r1 = r2

\* C22: from the groupby on, train and test hold each (source, target) pair at
\* most once, and the edge table the simulator is built from holds each pair
\* of the filtered log exactly once, whatever its multiplicity in the log
C22_PairsCollapse ==
    /\ notebook.cell \in {"group", "negative", "features", "fit", "test",
                          "predict", "edges"}
          => PairOnce(notebook.train) /\ PairOnce(notebook.test)
    /\ notebook.cell = "edges" =>
          /\ PairOnce(notebook.edges)
          /\ BagToSet(notebook.edges) =
                {notebook.contact[l] : l \in DOMAIN notebook.contact}
          /\ notebook.edges \in EdgeTables(1..LogNodes) \cup {EmptyBag}

\* the edge table was built from a log that holds a pair more than once
C22_Witness ==
    /\ notebook.cell = "edges"
    /\ \E k, l \in DOMAIN notebook.contact :
          k # l /\ notebook.contact[k] = notebook.contact[l]
    /\ BagCardinality(notebook.train) >= 1

-----------------------------------------------------------------------------
(* The step of the simulator *)

\* the sub-steps of step, in the order of its body
StepOrder == <<"prep_data", "train_model", "update_edges", "rebuild">>

\* C23: a call of step enters its sub-steps in the order prep_data,
\* train_model, update_edges, rebuild of G, each at most once and none left
\* out before the one that raises; the call returns only after all four; a
\* sub-step that raises ends the call, and what the later sub-steps assign is
\* left as it was; modularity and degree_gini are read only after a step that
\* returned
C23_SubStepsInOrder ==
    [][/\ call'.op = "step" =>
            /\ \E n \in 1..Len(StepOrder) : call'.ran = SubSeq(StepOrder, 1, n)
            /\ (call'.outcome = "ok") <=> (call'.ran = StepOrder)
            /\ Len(call'.ran) = 1 => UNCHANGED <<model, feature_names_in_, edge_df, G>>
            /\ Len(call'.ran) = 2 => UNCHANGED <<edge_df, G>>
            /\ Len(call'.ran) = 3 => G' = G
       /\ call'.op = "modularity" => Returned("step")
       /\ call'.op = "degree_gini" => Returned("modularity")]_vars

\* a step of the loop was ended by update_edges, after a classifier was fitted
C23_Witness ==
    /\ call.op = "step"
    /\ call.r # 0
    /\ call.outcome # "ok"
    /\ call.ran = <<"prep_data", "train_model", "update_edges">>
    /\ model = "fitted"

\* C24: every call of step, with train = True or train = False, replaces the
\* training table by the one built from the edge table it finds, and enters
\* train_model once prep_data has returned; whenever it changes the edge table
\* or returns, the classifier it leaves is fitted, in that call, on the columns
\* of that new training table
C24_StepRetrains ==
    [][call'.op = "step" =>
          /\ edge_df # EmptyBag =>
                /\ train_df'.defined
                /\ train_df'.rows = AddNegativeExamples(edge_df)
                /\ Len(call'.ran) >= 2
                /\ call'.ran[2] = "train_model"
          /\ (edge_df' # edge_df \/ call'.outcome = "ok") =>
                /\ Len(call'.ran) >= 3
                /\ call'.ran[2] = "train_model"
                /\ model' = "fitted"
                /\ feature_names_in_' =
                      Cols(GetDummies(BagToSet(train_df'.rows), comm_dict))]_vars

\* a call step(r, train = False) has fitted a classifier and rewired the graph
C24_Witness ==
    /\ call.op = "step"
    /\ ~call.train
    /\ call.r >= 1
    /\ call.outcome = "ok"
    /\ model = "fitted"
    /\ BagToSet(edge_df) # Positives(train_df.rows)

-----------------------------------------------------------------------------
(* The feature columns *)

\* the nodes joined to x by a row with link = true
PositiveNeighbours(rows, x) ==
    {y \in NodeListOf(rows) \ {x} :
        <<x, y>> \in Positives(rows) \/ <<y, x>> \in Positives(rows)}

\* C25: compute_features called without a graph gives every row the degrees
\* and the common-neighbour count of the graph of the rows with link = true:
\* deg_source and deg_target count the positive pairs the node is in,
\* common_neighbors counts the nodes joined to both endpoints by positive
\* pairs, and a pair with link = false adds to none of them
C25_FeaturesFromPositiveRows ==
    (call.op = "compute_features" /\ call.outcome = "ok") =>
        \A row \in BagToSet(merged_df.rows) :
            merged_df.features[row] =
               <<Cardinality({p \in Positives(merged_df.rows) : row[1] \in {p[1], p[2]}}),
                 Cardinality({p \in Positives(merged_df.rows) : row[2] \in {p[1], p[2]}}),
                 Cardinality(PositiveNeighbours(merged_df.rows, row[1])
                               \cap PositiveNeighbours(merged_df.rows, row[2]))>>

\* features were computed for a negative pair whose endpoints have a common
\* neighbour
C25_Witness ==
    /\ call.op = "compute_features"
    /\ call.outcome = "ok"
    /\ \E row \in BagToSet(merged_df.rows) :
          ~row[3] /\ merged_df.features[row][3] >= 1

\* C26: after construction and after every step of the driver loop the edges
\* of G are the pairs of edge_df and the nodes of G are those of node_list,
\* the stored communities partition the nodes of G, and modularity() does not
\* raise
C26_GraphMatchesEdgeTable ==
    /\ G.edges = {{row[1], row[2]} : row \in BagToSet(edge_df)}
    /\ \A e \in G.edges : Cardinality(e) = 2
    /\ Cardinality(G.edges) = Len_(edge_df)
    /\ G.nodes = node_list
    /\ comms \in PartitionsOf(G.nodes)
    /\ \A i \in 1..Len(comms) : comms[i] # {}
    /\ call.op = "modularity" => call.outcome = "ok"
    /\ ENABLED (Modularity /\ call'.outcome = "ok")

\* a completed step has rewired the graph and left a node without an edge
C26_Witness ==
    /\ call.op = "step"
    /\ call.outcome = "ok"
    /\ call.r >= 1
    /\ BagToSet(edge_df) # Positives(train_df.rows)
    /\ \E n \in G.nodes : Degree(G, n) = 0

\* C27: the candidate table of a step carries the features of the graph the
\* step found: every pair of the step's training table, that is every pair of
\* nodes with an edge in the edge table the step found, has in the candidate
\* table the degrees and the common-neighbour count it has in the training
\* table, whatever edges the step removed before the candidates were scored
C27_CandidatesScoredOnStartGraph ==
    (call.op = "step" /\ Len(call.ran) >= 3 /\ call.r <= Len_(edge_df)) =>
        /\ DOMAIN call.pair_features = Pairs(node_list)
        /\ \A row \in BagToSet(train_df.rows) :
              call.pair_features[<<row[1], row[2]>>] = train_df.features[row]

\* a step removed an edge of the graph it found, and the candidate table
\* still counts it in the degree of its endpoints
C27_Witness ==
    /\ call.op = "step"
    /\ call.outcome = "ok"
    /\ call.r >= 1
    /\ \E row \in BagToSet(train_df.rows) :
          /\ row[3]
          /\ ~BagIn(<<row[1], row[2]>>, edge_df)
          /\ call.pair_features[<<row[1], row[2]>>][1] >= 1
          /\ Degree(G, row[1]) < call.pair_features[<<row[1], row[2]>>][1]

\* C28: a call step(0) leaves the edge table, the graph and the node universe
\* as they were, whether it returns or raises; what it replaces is the
\* training table with its feature columns and the fitted model
C28_StepZeroKeepsSnapshot ==
    [][(call'.op = "step" /\ call'.r = 0) =>
          /\ edge_df' = edge_df
          /\ G' = G
          /\ node_list' = node_list
          /\ comm_dict' = comm_dict
          /\ comms' = comms
          /\ call'.outcome = "ok" =>
                /\ train_df' = Featured(AddNegativeExamples(edge_df), NoGraph)
                /\ feature_cols' = train_df_columns'
                /\ model' = "fitted"]_vars

\* step(0) has returned on a graph that earlier steps had rewired
C28_Witness ==
    /\ call.op = "step"
    /\ call.r = 0
    /\ call.outcome = "ok"
    /\ model = "fitted"
    /\ \E n \in G.nodes : Degree(G, n) = 0

\* C29: a step in which train_model raises, as it does on a training table
\* with a single class, ends there and leaves the edge table and the graph
\* exactly as they were before the step
C29_FailedFitKeepsSnapshot ==
    [][/\ (call'.op = "step" /\ call'.ran = <<"prep_data", "train_model">>) =>
            /\ call'.outcome # "ok"
            /\ model' # "fitted"
            /\ edge_df' = edge_df
            /\ G' = G
       /\ (call'.op = "step" /\ edge_df # EmptyBag
             /\ ~Fittable(AddNegativeExamples(edge_df))) =>
            /\ call'.outcome = "ValueError"
            /\ call'.ran = <<"prep_data", "train_model">>
            /\ edge_df' = edge_df
            /\ G' = G]_vars

\* the fit of a call step(r), r >= 1, raised on a training table with a single
\* class
C29_Witness ==
    /\ call.op = "step"
    /\ call.outcome = "ValueError"
    /\ call.ran = <<"prep_data", "train_model">>
    /\ call.r >= 1
    /\ call.r <= Len_(edge_df)
    /\ model = "unfitted"
    /\ ~Fittable(train_df.rows)
    /\ BagToSet(edge_df) = Positives(train_df.rows)

-----------------------------------------------------------------------------
(* The agent-based models of notebooks/SIS and notebooks/opinion-models:
   CompartmentalModel with CompartmentalAgent, OpinionModel with OpinionAgent.
   In SpecAgents the variable notebook holds the model object of such a
   notebook: the graph, every agent's visible value (state of a
   CompartmentalAgent, x of an OpinionAgent) and next value (state_next,
   x_next), and the position of the scheduler inside model.step() *)

NumAgents == 3
AgentNodes == 1..NumAgents

\* the graph G handed to the model: any graph without self-loops on the
\* agents' nodes
AgentGraphs ==
    {[nodes |-> AgentNodes, edges |-> E] :
        E \in SUBSET {{p[1], p[2]} : p \in Pairs(AgentNodes)}}

\* the visible values of an agent of a class: "S" / "I", or an opinion in
\* [-1, 1], held here as -1, 0 or 1
AgentValues(agent_class) ==
    IF agent_class = "CompartmentalAgent" THEN {"S", "I"} ELSE {0 - 1, 0, 1}

\* the next values of the agents: a function on the agents whose attribute
\* state_next (x_next) has been assigned
NoNext == [i \in {} |-> 0]
AssignNext(next, i, v) ==
    [j \in (DOMAIN next) \cup {i} |-> IF j = i THEN v ELSE next[j]]

\* self.model.grid.get_neighbors(self.pos, include_center = False): the
\* neighbours of the agent's node in G
GetNeighbors(g, i) == {j \in g.nodes \ {i} : {i, j} \in g.edges}

\* F_SIS(center, neighbors, beta, beta_background, gamma), by the transition
\* rules the notebook gives for it: a susceptible agent becomes infected when
\* the coin of one of its infected neighbours, or the background coin, comes
\* up heads; an infected agent recovers when its coin comes up heads.  The
\* result is any state a run of the coins can give
F_SIS(center, neighbors, background) ==
    IF center = "S"
    THEN {"S"} \cup (IF "I" \in neighbors \/ background THEN {"I"} ELSE {})
    ELSE {"I", "S"}

\* F_consensus(center, neighbors, beta): the opinion moves towards the mean of
\* the neighbours' opinions; the result is any opinion between the least and
\* the greatest of the opinions read
F_consensus(center, neighbors) ==
    {v \in AgentValues("OpinionAgent") :
        /\ \E u \in neighbors \cup {center} : u <= v
        /\ \E u \in neighbors \cup {center} : v <= u}

\* the values the agents at the nodes L show
CellListContents(values, L) == {values[j] : j \in L}

\* the model after __init__: agents placed on the nodes of G, each with its
\* initial value, none with a next value; the scheduler is between two steps
AgentModels(agent_class, backgrounds) ==
    {[agent_class |-> agent_class, G |-> g, beta_background |-> b, state |-> s,
      state_next |-> NoNext, phase |-> "idle", done |-> {}, start |-> s] :
        g \in AgentGraphs, b \in backgrounds,
        s \in [AgentNodes -> AgentValues(agent_class)]}

\* CompartmentalModel(G, CompartmentalAgent, F = F_SIS, ...) with or without
\* background infection, or OpinionModel(G, OpinionAgent, F = F_consensus, ...)
InitAgents ==
    /\ NoSimulator
    /\ \/ notebook \in AgentModels("CompartmentalAgent", BOOLEAN)
       \/ notebook \in AgentModels("OpinionAgent", {FALSE})

\* model.step() calls self.schedule.step(); start keeps the values the agents
\* show at that moment
ScheduleStep ==
    /\ UNCHANGED simVars
    /\ notebook.phase = "idle"
    /\ notebook' = [notebook EXCEPT !.phase = "step", !.done = {},
                                    !.start = notebook.state]

\* the scheduler has called step (advance) on agent i: once it has called it
\* on every agent it goes on to the next loop
Scheduled(m, i, next) ==
    IF m.done \cup {i} = AgentNodes
    THEN [m EXCEPT !.phase = next, !.done = {}]
    ELSE [m EXCEPT !.done = m.done \cup {i}]

\* variant: step assigns the visible state at once
CompartmentalAgentStep_Immediate(i) ==
    /\ UNCHANGED simVars
    /\ notebook.agent_class = "CompartmentalAgent"
    /\ notebook.phase = "step"
    /\ i \notin notebook.done
    /\ \E v \in F_SIS(notebook.state[i],
                      CellListContents(notebook.state, GetNeighbors(notebook.G, i)),
                      notebook.beta_background) :
          notebook' = Scheduled([notebook EXCEPT !.state_next = AssignNext(notebook.state_next, i, v),
                                                 !.state[i] = v],
                                i, "advance")

\* CompartmentalAgent.step, called by the first loop of the scheduler on an
\* agent it has not yet called in this model step
CompartmentalAgentStep(i) ==
    /\ UNCHANGED simVars
    /\ notebook.agent_class = "CompartmentalAgent"
    /\ notebook.phase = "step"
    /\ i \notin notebook.done
    /\ \E v \in F_SIS(notebook.state[i],
                      CellListContents(notebook.state, GetNeighbors(notebook.G, i)),
                      notebook.beta_background) :
          notebook' = Scheduled([notebook EXCEPT
                                   !.state_next = AssignNext(notebook.state_next, i, v)],
                                i, "advance")

\* OpinionAgent.step: x_next = F(self, neighbors, ...)
OpinionAgentStep(i) ==
    /\ UNCHANGED simVars
    /\ notebook.agent_class = "OpinionAgent"
    /\ notebook.phase = "step"
    /\ i \notin notebook.done
    /\ \E v \in F_consensus(notebook.state[i],
                            CellListContents(notebook.state,
                                             GetNeighbors(notebook.G, i))) :
          notebook' = Scheduled([notebook EXCEPT
                                   !.state_next = AssignNext(notebook.state_next, i, v)],
                                i, "advance")

\* advance of either class, called by the second loop of the scheduler:
\* self.state = self.state_next, self.x = self.x_next
AgentAdvance(i) ==
    /\ UNCHANGED simVars
    /\ notebook.phase = "advance"
    /\ i \notin notebook.done
    /\ notebook' = Scheduled([notebook EXCEPT !.state[i] = notebook.state_next[i]],
                             i, "collect")

\* self.collector.collect(self) reads every agent's visible value
Collect ==
    /\ UNCHANGED simVars
    /\ notebook.phase = "collect"
    /\ notebook' = [notebook EXCEPT !.phase = "idle"]

NextAgents ==
    \/ ScheduleStep
    \/ \E i \in AgentNodes : CompartmentalAgentStep(i)
    \/ \E i \in AgentNodes : OpinionAgentStep(i)
    \/ \E i \in AgentNodes : AgentAdvance(i)
    \/ Collect

SpecAgents == InitAgents /\ [][NextAgents]_vars

\* the values F can return to agent i on the values the agents showed when the
\* model step began
SynchronousOutcomes(m, i) ==
    LET seen == CellListContents(m.start, GetNeighbors(m.G, i))
    IN  IF m.agent_class = "CompartmentalAgent"
        THEN F_SIS(m.start[i], seen, m.beta_background)
        ELSE F_consensus(m.start[i], seen)

\* the agents whose step has run in the current model step
Stepped(m) == IF m.phase = "step" THEN m.done ELSE AgentNodes

\* the agents whose advance has run in the current model step
Advanced(m) ==
    IF m.phase = "step" THEN {} ELSE IF m.phase = "advance" THEN m.done ELSE AgentNodes

====
